---- MODULE Spec2Model ----
(***************************************************************************)
(* A model of the GuruTvapay Node.js SDK (src/gurutvapay-node-sdk.js):     *)
(*   - GuruTvapayClient._fetchWithRetry, the retry/backoff dispatcher,     *)
(*     as a state machine whose steps are the code between two awaits;     *)
(*   - GuruTvapayClient._authHeader, the choice of Authorization header;   *)
(*   - GuruTvapayClient.verifyWebhook, the webhook signature check.        *)
(* Strings are sequences of character codes, so that parseInt, the hex     *)
(* decoding and bit flips are computed rather than assumed.  Times are in  *)
(* milliseconds.                                                           *)
(***************************************************************************)
EXTENDS Integers, Sequences, FiniteSets, TLC

(***************************************************************************)
(* Bounds of the model.                                                    *)
(***************************************************************************)
\* the largest maxRetries a client is constructed with
MaxRetriesBound == 3

\* how many half seconds the clock read by _authHeader advances
MaxTicks == 8

\* the longest webhook payload, in bytes
MaxPayloadLen == 2

\* the length in bytes of the digest standing for the 32 bytes of SHA-256
DigestLen == 2

\* how many calls of public methods are made on one client
NumCalls == 2

\* the largest maxRetries of a client that serves several calls
MaxClientRetries == 1

\* how many times the clock of a client that serves several calls advances
MaxClientTicks == 1

(***************************************************************************)
(* Arithmetic helpers.                                                     *)
(***************************************************************************)
RECURSIVE Pow2(_)
\* Math.pow(2, n) for n >= 0
Pow2(n) == IF n <= 0 THEN 1 ELSE 2 * Pow2(n - 1)

\* the character codes of the decimal digits '0'..'9'
IsDigit(c) == c >= 48 /\ c <= 57

\* white space skipped by parseInt: space, tab, line feed, carriage return
IsSpace(c) == c \in {32, 9, 10, 13}

RECURSIVE DigitsValue(_, _)
\* the value of the longest prefix of decimal digits of s, continuing from acc
DigitsValue(s, acc) ==
  IF s = <<>> \/ ~IsDigit(Head(s)) THEN acc
  ELSE DigitsValue(Tail(s), acc * 10 + (Head(s) - 48))

RECURSIVE SkipSpace(_)
SkipSpace(s) == IF s # <<>> /\ IsSpace(Head(s)) THEN SkipSpace(Tail(s)) ELSE s

\* parseInt(s, 10): leading white space, an optional sign, then the longest
\* run of digits; NaN when there is no digit
ParseInt(s) ==
  LET t == SkipSpace(s)
      neg == t # <<>> /\ Head(t) = 45
      u == IF t # <<>> /\ Head(t) \in {43, 45} THEN Tail(t) ELSE t
  IN IF u = <<>> \/ ~IsDigit(Head(u))
       THEN [nan |-> TRUE, val |-> 0]
       ELSE [nan |-> FALSE,
             val |-> IF neg THEN 0 - DigitsValue(u, 0) ELSE DigitsValue(u, 0)]

(***************************************************************************)
(* What the transport can answer to one exchange.                          *)
(***************************************************************************)
\* null, and a string s, as the values of a field that holds either
Null == [present |-> FALSE, value |-> <<>>]

Str(s) == [present |-> TRUE, value |-> s]

\* the truthiness of a value that is null or a string
Truthy(v) == v.present /\ v.value # <<>>

\* res.headers.get('Retry-After'): null when the header is absent
NoHeader == Null

Header(s) == Str(s)

\* the Retry-After values the transport sends: "2" and "abc"
RetryAfterValues == { <<50>>, <<97, 98, 99>> }

\* the statuses the transport answers with
Statuses == {200, 201, 400, 401, 403, 404, 429, 500, 503}

\* a response of fetch: its status, its Retry-After header, and whether its
\* body text is JSON
HttpResponse(status, retryAfter, json) ==
  [kind |-> "response", status |-> status, retryAfter |-> retryAfter, json |-> json]

HttpResponses ==
  { HttpResponse(s, NoHeader, TRUE) : s \in Statuses }
    \cup { HttpResponse(200, NoHeader, FALSE) }
    \cup { HttpResponse(429, Header(v), TRUE) : v \in RetryAfterValues }

\* fetch rejecting: a network failure, or the AbortError of controller.abort()
Rejection(name) ==
  [kind |-> "rejection", status |-> 0, retryAfter |-> NoHeader, json |-> FALSE,
   name |-> name]

\* one entry of the record of exchanges: what attempt n was answered
Exchange(r) ==
  IF r.kind = "response"
    THEN [kind |-> "response", status |-> r.status, retryAfter |-> r.retryAfter,
          json |-> r.json, name |-> "Response"]
    ELSE r

(***************************************************************************)
(* The state.                                                              *)
(***************************************************************************)
VARIABLES
  maxRetries,     \* this.maxRetries
  backoffFactor,  \* this.backoffFactor, in thousandths (500 is 0.5)
  pc,             \* where the logical call is: idle, fetching, sleeping, done
  attempt,        \* the attempt parameter after attempt += 1
  exchanges,      \* history: how many times fetch was called
  timers,         \* the attempts whose setTimeout(abort) timer is pending
  trace,          \* history: what each transport exchange was answered
  waits,          \* history: the delay of each backoff sleep, in ms
  outcome,        \* what the call delivered to its caller
  delivered,      \* history: how many outcomes the call delivered
  apiKey,         \* this.apiKey: null or a string
  token,          \* this.token: null or { access_token, expires_at }
  now,            \* Date.now(), in ms
  authHeader,     \* the last result of _authHeader()
  authHeaderAt,   \* history: the value of Date.now() that call read
  payload,        \* the webhook body that was signed
  secret,         \* the webhook secret
  received,       \* the payloadBytes passed to verifyWebhook
  signature,      \* the signatureHeader passed to verifyWebhook
  tamper,         \* history: what was changed between signing and verifying
  verified,       \* the result of verifyWebhook
  threw,          \* whether that call of verifyWebhook threw
  verifiedBare,   \* the result for the same header without its sha256= prefix
  clientId,       \* this.clientId: null or a string
  clientSecret,   \* this.clientSecret: null or a string
  calls,          \* the calls of public methods on the client, by number
  stored          \* history: the assignments to this.token, in order

dispatcherVars == <<maxRetries, backoffFactor, pc, attempt, exchanges, timers,
                    trace, waits, outcome, delivered>>

authVars == <<apiKey, token, now, authHeader, authHeaderAt>>

webhookVars == <<payload, secret, received, signature, tamper, verified, threw,
                 verifiedBare>>

clientVars == <<clientId, clientSecret, calls, stored>>

vars == <<dispatcherVars, authVars, webhookVars, clientVars>>

NoOutcome == [kind |-> "none", class |-> "none", status |-> 0, attempt |-> 0]

(***************************************************************************)
(* _fetchWithRetry: the decisions.                                         *)
(***************************************************************************)
\* res.ok taken for res.status === 200
Ok_Only200(status) == status = 200

\* res.ok
Ok(status) == status >= 200 /\ status <= 299

\* the backoff with the exponent attempt in place of attempt - 1
Backoff_ExponentFromAttempt(bf, a) == bf * Pow2(a)

\* this.backoffFactor * Math.pow(2, attempt - 1) * 1000
Backoff(bf, a) == bf * Pow2(a - 1)

\* retryAfter && attempt <= this.maxRetries
RateLimitRetries(retryAfter, a, mr) == Truthy(retryAfter) /\ a <= mr

\* parseInt(retryAfter, 10) || (backoff)
RateLimitWait(retryAfter, bf, a) ==
  LET n == ParseInt(retryAfter.value)
  IN IF ~n.nan /\ n.val # 0 THEN n.val ELSE Backoff(bf, a)

\* res.status >= 500 && attempt <= this.maxRetries
ServerErrorRetries(status, a, mr) == status >= 500 /\ a <= mr

\* the catch block retrying once more than the budget
CatchRetries_OffByOne(a, mr) == a <= mr + 1

\* the catch block: attempt <= this.maxRetries
CatchRetries(a, mr) == a <= mr

\* the last throw of the try block with a message that leaves out res.status
Thrown_StatusLost(r) ==
  IF r.status = 401 \/ r.status = 403 THEN [class |-> "AuthError", status |-> r.status]
  ELSE IF r.status = 404 THEN [class |-> "NotFound", status |-> r.status]
  ELSE IF r.status = 429 THEN [class |-> "RateLimit", status |-> r.status]
  ELSE [class |-> "HTTP", status |-> 0]

\* the Error thrown inside the try block for a response that is not retried
\* there, by the prefix of its message
Thrown(r) ==
  IF r.status = 401 \/ r.status = 403 THEN [class |-> "AuthError", status |-> r.status]
  ELSE IF r.status = 404 THEN [class |-> "NotFound", status |-> r.status]
  ELSE IF r.status = 429 THEN [class |-> "RateLimit", status |-> r.status]
  ELSE [class |-> "HTTP", status |-> r.status]

\* JSON.parse(text), or { raw: text } when the text is not JSON
Decoded(r) == IF r.json THEN "json" ELSE "raw"

(***************************************************************************)
(* _fetchWithRetry: the steps.                                             *)
(***************************************************************************)
\* entering _fetchWithRetry(url, options, a): attempt += 1, the timer is
\* armed and fetch is called
Invoke(a) ==
  /\ attempt' = a + 1
  /\ exchanges' = exchanges + 1
  /\ timers' = timers \cup {a + 1}
  /\ pc' = "fetching"

\* await new Promise(r => setTimeout(r, wait))
Sleep(wait) ==
  /\ pc' = "sleeping"
  /\ waits' = Append(waits, wait)
  /\ UNCHANGED <<attempt, exchanges, outcome, delivered>>

\* the call rejects with e
Throw(e) ==
  /\ pc' = "done"
  /\ outcome' = [kind |-> "error", class |-> e.class, status |-> e.status,
                 attempt |-> attempt]
  /\ delivered' = delivered + 1
  /\ UNCHANGED <<attempt, exchanges, waits>>

\* the call resolves with the decoded body
Return(body) ==
  /\ pc' = "done"
  /\ outcome' = [kind |-> "ok", class |-> body, status |-> 0, attempt |-> attempt]
  /\ delivered' = delivered + 1
  /\ UNCHANGED <<attempt, exchanges, waits>>

\* the catch block rethrowing a new error in place of err
Catch_Wrapped(e) ==
  IF CatchRetries(attempt, maxRetries)
    THEN Sleep(Backoff(backoffFactor, attempt))
    ELSE Throw([class |-> "TransportError", status |-> 0])

\* catch (err): retry after the backoff while attempts remain, else rethrow
Catch(e) ==
  IF CatchRetries(attempt, maxRetries)
    THEN Sleep(Backoff(backoffFactor, attempt))
    ELSE Throw(e)

\* a public method calls _fetchWithRetry(url, options)
Call ==
  /\ pc = "idle"
  /\ Invoke(0)
  /\ UNCHANGED <<maxRetries, backoffFactor, trace, waits, outcome, delivered>>
  /\ UNCHANGED <<authVars, webhookVars, clientVars>>

\* fetch resolves with response r: the timer is cleared and r is classified
FetchResolve(r) ==
  /\ pc = "fetching"
  /\ timers' = timers \ {attempt}
  /\ trace' = Append(trace, Exchange(r))
  /\ IF Ok(r.status) THEN Return(Decoded(r))
     ELSE IF r.status = 401 \/ r.status = 403 THEN Catch(Thrown(r))
     ELSE IF r.status = 404 THEN Catch(Thrown(r))
     ELSE IF r.status = 429 THEN
       IF RateLimitRetries(r.retryAfter, attempt, maxRetries)
         THEN Sleep(RateLimitWait(r.retryAfter, backoffFactor, attempt))
         ELSE Catch(Thrown(r))
     ELSE IF ServerErrorRetries(r.status, attempt, maxRetries)
       THEN Sleep(Backoff(backoffFactor, attempt))
     ELSE Catch(Thrown(r))
  /\ UNCHANGED <<maxRetries, backoffFactor>>
  /\ UNCHANGED <<authVars, webhookVars, clientVars>>

\* fetch rejects with a network error: control goes to the catch block, the
\* clearTimeout after the await is skipped
FetchReject ==
  /\ pc = "fetching"
  /\ trace' = Append(trace, Rejection("NetworkError"))
  /\ Catch([class |-> "NetworkError", status |-> 0])
  /\ UNCHANGED <<maxRetries, backoffFactor, timers>>
  /\ UNCHANGED <<authVars, webhookVars, clientVars>>

\* the timer of the attempt in flight fires: controller.abort() makes fetch
\* reject with an AbortError
Timeout ==
  /\ pc = "fetching"
  /\ attempt \in timers
  /\ timers' = timers \ {attempt}
  /\ trace' = Append(trace, Rejection("AbortError"))
  /\ Catch([class |-> "AbortError", status |-> 0])
  /\ UNCHANGED <<maxRetries, backoffFactor>>
  /\ UNCHANGED <<authVars, webhookVars, clientVars>>

\* the backoff sleep ends: return this._fetchWithRetry(url, options, attempt)
Wake ==
  /\ pc = "sleeping"
  /\ Invoke(attempt)
  /\ UNCHANGED <<maxRetries, backoffFactor, trace, waits, outcome, delivered>>
  /\ UNCHANGED <<authVars, webhookVars, clientVars>>

\* a timer left pending by an attempt that is over fires: it aborts a
\* controller whose fetch has already settled, which changes nothing else
TimerFire(k) ==
  /\ k \in timers
  /\ ~(pc = "fetching" /\ k = attempt)
  /\ timers' = timers \ {k}
  /\ UNCHANGED <<maxRetries, backoffFactor, pc, attempt, exchanges, trace, waits,
                 outcome, delivered>>
  /\ UNCHANGED <<authVars, webhookVars, clientVars>>

(***************************************************************************)
(* _authHeader.                                                            *)
(***************************************************************************)
\* this.token = null
NoToken == [set |-> FALSE, access_token |-> <<>>, expires_at |-> 0]

\* this.token = { access_token, expires_at }, expires_at in seconds
Token(access_token, expires_at) ==
  [set |-> TRUE, access_token |-> access_token, expires_at |-> expires_at]

\* {}: no Authorization header
NoAuthorization == [authorization |-> FALSE, bearer |-> <<>>]

\* { Authorization: `Bearer ${credential}` }
Bearer(credential) == [authorization |-> TRUE, bearer |-> credential]

\* _authHeader without the 10 s safety margin
_authHeader_NoMargin(key, tok, ms) ==
  IF Truthy(key) THEN Bearer(key.value)
  ELSE IF tok.set /\ ms < tok.expires_at * 1000 THEN Bearer(tok.access_token)
  ELSE NoAuthorization

\* _authHeader() with this.apiKey = key, this.token = tok and Date.now() = ms.
\* Date.now() / 1000 < expires_at - 10 is compared in milliseconds.
_authHeader(key, tok, ms) ==
  IF Truthy(key) THEN Bearer(key.value)
  ELSE IF tok.set /\ ms < (tok.expires_at - 10) * 1000 THEN Bearer(tok.access_token)
  ELSE NoAuthorization

\* a call of this._authHeader()
AuthHeader ==
  /\ authHeader' = _authHeader(apiKey, token, now)
  /\ authHeaderAt' = now
  /\ UNCHANGED <<apiKey, token, now>>
  /\ UNCHANGED <<dispatcherVars, webhookVars, clientVars>>

\* the clock advances by half a second
Tick ==
  /\ now + 500 <= MaxTicks * 500
  /\ now' = now + 500
  /\ UNCHANGED <<apiKey, token, authHeader, authHeaderAt>>
  /\ UNCHANGED <<dispatcherVars, webhookVars, clientVars>>

(***************************************************************************)
(* verifyWebhook.                                                          *)
(***************************************************************************)
\* the value of a hexadecimal digit given by its character code, -1 for any
\* other character: 0-9, a-f and A-F are digits
HexVal(c) ==
  IF c >= 48 /\ c <= 57 THEN c - 48
  ELSE IF c >= 97 /\ c <= 102 THEN c - 87
  ELSE IF c >= 65 /\ c <= 70 THEN c - 55
  ELSE -1

\* the lower-case hexadecimal digit of v in 0..15
HexDigit(v) == IF v < 10 THEN 48 + v ELSE 87 + v

RECURSIVE HexEncode(_)
\* digest('hex'): two lower-case digits per byte
HexEncode(bytes) ==
  IF bytes = <<>> THEN <<>>
  ELSE <<HexDigit(Head(bytes) \div 16), HexDigit(Head(bytes) % 16)>>
         \o HexEncode(Tail(bytes))

RECURSIVE HexDecode(_)
\* Buffer.from(s, 'hex'): one byte per pair of digits, ending at the first
\* pair that is incomplete or holds a character that is no digit
HexDecode(s) ==
  IF Len(s) < 2 \/ HexVal(s[1]) < 0 \/ HexVal(s[2]) < 0 THEN <<>>
  ELSE <<HexVal(s[1]) * 16 + HexVal(s[2])>> \o HexDecode(Tail(Tail(s)))

RECURSIVE Pow256(_)
Pow256(n) == IF n <= 0 THEN 1 ELSE 256 * Pow256(n - 1)

RECURSIVE Mix(_, _)
\* a polynomial hash of the bytes of s continued from acc, modulo
\* 256^DigestLen; its multiplier is odd, so that changing one bit of one
\* byte changes the result
Mix(s, acc) ==
  IF s = <<>> THEN acc
  ELSE Mix(Tail(s), (acc * 31 + Head(s) + 1) % Pow256(DigestLen))

RECURSIVE Bytes(_, _)
\* the n bytes of v, most significant first
Bytes(v, n) ==
  IF n = 0 THEN <<>> ELSE Append(Bytes(v \div 256, n - 1), v % 256)

\* crypto.createHmac('sha256', key).update(msg).digest(): a keyed digest of
\* DigestLen bytes stands for HMAC-SHA256
Hmac(key, msg) == Bytes(Mix(msg, Mix(key, 7)), DigestLen)

\* 'sha256='
Sha256Prefix == <<115, 104, 97, 50, 53, 54, 61>>

\* s.startsWith(prefix)
StartsWith(s, prefix) ==
  Len(s) >= Len(prefix) /\ SubSeq(s, 1, Len(prefix)) = prefix

RECURSIVE UpToEquals(_)
\* the characters of s before its first '='
UpToEquals(s) ==
  IF s = <<>> \/ Head(s) = 61 THEN <<>> ELSE <<Head(s)>> \o UpToEquals(Tail(s))

\* s.split('=')[1] for an s that starts with 'sha256=': what lies between
\* the first '=' and the next one
SplitSecond(s) == UpToEquals(SubSeq(s, Len(Sha256Prefix) + 1, Len(s)))

\* crypto.timingSafeEqual(a, b) for buffers of one length
TimingSafeEqual(a, b) == a = b

\* verifyWebhook returning after the length check, without the comparison
verifyWebhook_LengthOnly(payloadBytes, signatureHeader, key) ==
  IF ~Truthy(signatureHeader) THEN FALSE
  ELSE LET sigHex == IF StartsWith(signatureHeader.value, Sha256Prefix)
                       THEN SplitSecond(signatureHeader.value)
                       ELSE signatureHeader.value
           mac == HexEncode(Hmac(key, payloadBytes))
       IN Len(HexDecode(sigHex)) = Len(HexDecode(mac))

\* verifyWebhook(payloadBytes, signatureHeader, secret)
verifyWebhook(payloadBytes, signatureHeader, key) ==
  IF ~Truthy(signatureHeader) THEN FALSE
  ELSE LET sigHex == IF StartsWith(signatureHeader.value, Sha256Prefix)
                       THEN SplitSecond(signatureHeader.value)
                       ELSE signatureHeader.value
           mac == HexEncode(Hmac(key, payloadBytes))
           sigBuf == HexDecode(sigHex)
           macBuf == HexDecode(mac)
       IN IF Len(sigBuf) # Len(macBuf) THEN FALSE
          ELSE TimingSafeEqual(sigBuf, macBuf)

\* crypto.timingSafeEqual(a, b) throws a RangeError for buffers of different
\* lengths
TimingSafeEqualThrows(a, b) == Len(a) # Len(b)

\* whether verifyWebhook(payloadBytes, signatureHeader, secret) throws, for a
\* header that is null or a string
verifyWebhookThrows(payloadBytes, signatureHeader, key) ==
  IF ~Truthy(signatureHeader) THEN FALSE
  ELSE LET sigHex == IF StartsWith(signatureHeader.value, Sha256Prefix)
                       THEN SplitSecond(signatureHeader.value)
                       ELSE signatureHeader.value
           mac == HexEncode(Hmac(key, payloadBytes))
           sigBuf == HexDecode(sigHex)
           macBuf == HexDecode(mac)
       IN IF Len(sigBuf) # Len(macBuf) THEN FALSE
          ELSE TimingSafeEqualThrows(sigBuf, macBuf)

\* bit b of the byte c
Bit(c, b) == (c \div Pow2(b)) % 2

\* the byte c with its bit b changed
FlipBit(c, b) == IF Bit(c, b) = 1 THEN c - Pow2(b) ELSE c + Pow2(b)

\* the sequence s with bit b of its i-th element changed
FlipAt(s, i, b) == [s EXCEPT ![i] = FlipBit(s[i], b)]

\* nothing was verified yet
Untouched == [what |-> "unset", at |-> 0, bit |-> 0]

\* the sender signs the payload and the receiver verifies what it received:
\* verifyWebhook(payload, hmac_hex(payload, secret), secret)
VerifySigned ==
  /\ tamper.what = "unset"
  /\ received' = payload
  /\ signature' = Str(HexEncode(Hmac(secret, payload)))
  /\ verified' = verifyWebhook(received', signature', secret)
  /\ tamper' = [what |-> "nothing", at |-> 0, bit |-> 0]
  /\ UNCHANGED <<payload, secret, threw, verifiedBare>>
  /\ UNCHANGED <<dispatcherVars, authVars, clientVars>>

\* as VerifySigned, with bit b of byte i of the payload changed on the way
VerifyFlippedPayload(i, b) ==
  /\ tamper.what = "unset"
  /\ i \in 1..Len(payload)
  /\ received' = FlipAt(payload, i, b)
  /\ signature' = Str(HexEncode(Hmac(secret, payload)))
  /\ verified' = verifyWebhook(received', signature', secret)
  /\ tamper' = [what |-> "payload", at |-> i, bit |-> b]
  /\ UNCHANGED <<payload, secret, threw, verifiedBare>>
  /\ UNCHANGED <<dispatcherVars, authVars, clientVars>>

\* as VerifySigned, with bit b of character i of the signature string changed
VerifyFlippedSignature(i, b) ==
  /\ tamper.what = "unset"
  /\ i \in 1..(2 * DigestLen)
  /\ received' = payload
  /\ signature' = Str(FlipAt(HexEncode(Hmac(secret, payload)), i, b))
  /\ verified' = verifyWebhook(received', signature', secret)
  /\ tamper' = [what |-> "signature", at |-> i, bit |-> b]
  /\ UNCHANGED <<payload, secret, threw, verifiedBare>>
  /\ UNCHANGED <<dispatcherVars, authVars, clientVars>>

\* signature headers that are no hexadecimal string, given the right
\* signature mac: "zz", mac with its first character replaced by 'g', mac
\* after a space, and mac followed by "zz"
NonHexHeaders(mac) ==
  { Str(<<122, 122>>),
    Str([mac EXCEPT ![1] = 103]),
    Str(<<32>> \o mac),
    Str(mac \o <<122, 122>>) }

\* hexadecimal signature headers that decode to another number of bytes than
\* the digest: mac without its last byte, mac followed by "00", and "ab"
WrongLengthHeaders(mac) ==
  { Str(SubSeq(mac, 1, Len(mac) - 2)),
    Str(mac \o <<48, 48>>),
    Str(<<97, 98>>) }

\* the header is absent (null) or empty
AbsentHeaders == {Null, Str(<<>>)}

\* verifyWebhook called with the malformed header h
VerifyMalformed(h) ==
  /\ tamper.what = "unset"
  /\ received' = payload
  /\ signature' = h
  /\ verified' = verifyWebhook(received', signature', secret)
  /\ threw' = verifyWebhookThrows(received', signature', secret)
  /\ tamper' = [what |-> "malformed", at |-> 0, bit |-> 0]
  /\ UNCHANGED <<payload, secret, verifiedBare>>
  /\ UNCHANGED <<dispatcherVars, authVars, clientVars>>

\* the hexadecimal strings sent after the prefix: the right signature, the
\* right signature in upper case digits where it has letters, a signature of
\* another payload, and a signature that is too short
HexStrings(mac) ==
  { mac,
    [i \in 1..Len(mac) |-> IF mac[i] >= 97 THEN mac[i] - 32 ELSE mac[i]],
    HexEncode(Hmac(secret, payload \o <<1>>)),
    SubSeq(mac, 1, Len(mac) - 2) }

\* verifyWebhook called with 'sha256=' + hex, and with hex alone
VerifyPrefixed(hex) ==
  /\ tamper.what = "unset"
  /\ received' = payload
  /\ signature' = Str(Sha256Prefix \o hex)
  /\ verified' = verifyWebhook(received', signature', secret)
  /\ verifiedBare' = verifyWebhook(received', Str(hex), secret)
  /\ threw' = (verifyWebhookThrows(received', signature', secret)
                 \/ verifyWebhookThrows(received', Str(hex), secret))
  /\ tamper' = [what |-> "prefixed", at |-> 0, bit |-> 0]
  /\ UNCHANGED <<payload, secret>>
  /\ UNCHANGED <<dispatcherVars, authVars, clientVars>>

(***************************************************************************)
(* The client serving several calls of loginWithPassword, createPayment,   *)
(* transactionStatus, transactionList and request, each running its own    *)
(* invocations of _fetchWithRetry.                                         *)
(***************************************************************************)
\* the calls, numbered in the order they are made
Calls == 1..NumCalls

\* the public methods that send the header of _authHeader
RequestOps == {"createPayment", "transactionStatus", "transactionList", "request"}

\* a field of a decoded response that is absent, or holds the number v
Absent == [present |-> FALSE, val |-> 0]

Num(v) == [present |-> TRUE, val |-> v]

\* the decoded body of a response, by the fields loginWithPassword reads
Body(access_token, expires_at, expires_in) ==
  [access_token |-> access_token, expires_at |-> expires_at,
   expires_in |-> expires_in]

NoBody == Body(Null, Absent, Absent)

\* the bodies the login endpoint answers a 2xx with: token "a" expiring at
\* second 20, token "b" living 30 s, token "z" with expires_at 0 and no life
\* time, and a body without access_token
LoginBodies ==
  { Body(Str(<<97>>), Num(20), Absent),
    Body(Str(<<98>>), Absent, Num(30)),
    Body(Str(<<122>>), Num(0), Absent),
    Body(Null, Absent, Num(30)) }

\* the responses the transport gives the calls of a client; a call it does
\* not answer ends by the timeout of the attempt
ClientResponses == { HttpResponse(st, NoHeader, TRUE) : st \in {200, 401} }

\* the last assignment to this.token: by which call, and when; none yet
NoStore == [call |-> 0, token |-> NoToken]

\* a call that was not made yet
NoCall ==
  [op |-> "none", pc |-> "idle", attempt |-> 0, exchanges |-> 0, answers |-> 0,
   timers |-> {}, headers |-> NoAuthorization, sent |-> {}, abortedBy |-> {},
   res |-> NoBody, outcome |-> NoOutcome]

\* the controller shared by every attempt of every call
Controller_Shared(c, k) == <<0, 0>>

\* const controller = new AbortController(): one for attempt k of call c
Controller(c, k) == <<c, k>>

\* the headers recomputed from _authHeader at every attempt
HeadersOfAttempt_Recomputed(chosen, key, tok, ms) == _authHeader(key, tok, ms)

\* fetch(url, { ...options, signal }): the headers of options, as chosen by
\* the public method, go to every attempt
HeadersOfAttempt(chosen, key, tok, ms) == chosen

\* what _fetchWithRetry does next: return, sleep and retry, or throw error
Decision(then, error) == [then |-> then, error |-> error]

NoError == [class |-> "none", status |-> 0]

\* catch (err) at attempt a
CatchOf(e, a, mr) ==
  IF CatchRetries(a, mr) THEN Decision("sleep", e) ELSE Decision("throw", e)

\* the try block at attempt a when fetch resolves with r
DecisionOf(r, a, mr) ==
  IF Ok(r.status) THEN Decision("return", NoError)
  ELSE IF r.status = 401 \/ r.status = 403 THEN CatchOf(Thrown(r), a, mr)
  ELSE IF r.status = 404 THEN CatchOf(Thrown(r), a, mr)
  ELSE IF r.status = 429 THEN
    IF RateLimitRetries(r.retryAfter, a, mr)
      THEN Decision("sleep", NoError)
      ELSE CatchOf(Thrown(r), a, mr)
  ELSE IF ServerErrorRetries(r.status, a, mr) THEN Decision("sleep", NoError)
  ELSE CatchOf(Thrown(r), a, mr)

\* this.token cleared when a call fails with an AuthError
TokenAfterSettle_ClearedOnAuthError(tok, d) ==
  IF d.then = "throw" /\ d.error.class = "AuthError" THEN NoToken ELSE tok

\* this.token after an attempt of _fetchWithRetry ended with decision d: no
\* statement of _fetchWithRetry assigns it
TokenAfterSettle(tok, d) == tok

\* the call record after entering _fetchWithRetry: attempt += 1, the timer
\* is armed, and fetch is called with headers h and the signal of a new
\* controller, which no timer has aborted
Invoked(call, h) ==
  [call EXCEPT !.attempt = call.attempt + 1,
               !.exchanges = call.exchanges + 1,
               !.timers = call.timers \cup {call.attempt + 1},
               !.sent = call.sent \cup {h},
               !.abortedBy = {},
               !.pc = "fetching"]

\* the call record after the promise of the public method settled with
\* outcome o: the locals of the call are gone, its timers stay.  The outcome
\* of an error thrown by _fetchWithRetry names the attempt that threw it
Finished(call, o) ==
  [NoCall EXCEPT !.op = call.op, !.pc = "done", !.timers = call.timers,
                 !.outcome = o]

\* the call record after an attempt ended with decision d; body is the
\* decoded body of a 2xx response.  loginWithPassword awaits the result and
\* goes on; the other methods return the promise of _fetchWithRetry
Settled(call, d, body) ==
  IF d.then = "sleep" THEN [call EXCEPT !.pc = "sleeping"]
  ELSE IF d.then = "throw"
    THEN Finished(call, [kind |-> "error", class |-> d.error.class,
                         status |-> d.error.status, attempt |-> call.attempt])
  ELSE IF call.op = "loginWithPassword"
    THEN [call EXCEPT !.pc = "settled", !.res = body]
  ELSE Finished(call, [kind |-> "ok", class |-> "json", status |-> 0,
                       attempt |-> 0])

\* what no call of a public method changes: the configuration of the
\* client, and the state of the other parts of the model
ClientFrame ==
  /\ UNCHANGED <<maxRetries, backoffFactor, apiKey, clientId, clientSecret>>
  /\ UNCHANGED <<pc, attempt, exchanges, timers, trace, waits, outcome, delivered>>
  /\ UNCHANGED <<authHeader, authHeaderAt, webhookVars>>

\* call c is the next one to be made
NextCall(c) ==
  /\ calls[c].op = "none"
  /\ \A d \in Calls : d < c => calls[d].op # "none"

\* createPayment, transactionStatus, transactionList or request is called:
\* the headers are built with this._authHeader() and _fetchWithRetry entered.
\* The four methods differ in the url, the method and the body alone, so the
\* call is recorded as a "request" whichever of them op is
CallRequest(c, op) ==
  /\ NextCall(c)
  /\ op \in RequestOps
  /\ LET h == _authHeader(apiKey, token, now)
     IN calls' = [calls EXCEPT ![c] =
          Invoked([calls[c] EXCEPT !.op = "request", !.headers = h],
                  HeadersOfAttempt(h, apiKey, token, now))]
  /\ UNCHANGED <<token, now, stored>>
  /\ ClientFrame

\* loginWithPassword is called: it throws without clientId and clientSecret,
\* and else enters _fetchWithRetry with a Content-Type header alone
CallLogin(c) ==
  /\ NextCall(c)
  /\ calls' = [calls EXCEPT ![c] =
       IF ~Truthy(clientId) \/ ~Truthy(clientSecret)
         THEN Finished([calls[c] EXCEPT !.op = "loginWithPassword"],
                       [kind |-> "error", class |-> "ConfigurationError",
                        status |-> 0, attempt |-> 0])
         ELSE Invoked([calls[c] EXCEPT !.op = "loginWithPassword"],
                      HeadersOfAttempt(NoAuthorization, apiKey, token, now))]
  /\ UNCHANGED <<token, now, stored>>
  /\ ClientFrame

\* the fetch of call c resolves with r, whose decoded body is body: the
\* timer of the attempt is cleared and r is classified
ClientResolve(c, r, body) ==
  /\ calls[c].pc = "fetching"
  /\ body \in (IF calls[c].op = "loginWithPassword" /\ Ok(r.status)
                 THEN LoginBodies ELSE {NoBody})
  /\ LET d == DecisionOf(r, calls[c].attempt, maxRetries)
         cleared == [calls[c] EXCEPT !.timers = calls[c].timers \ {calls[c].attempt},
                                     !.answers = calls[c].answers + 1]
     IN /\ calls' = [calls EXCEPT ![c] = Settled(cleared, d, body)]
        /\ token' = TokenAfterSettle(token, d)
  /\ UNCHANGED <<now, stored>>
  /\ ClientFrame

\* the timer of attempt k of call c fires: controller.abort() rejects, with
\* an AbortError, the fetch in flight that was given this controller's signal
ClientTimerFire(c, k) ==
  /\ k \in calls[c].timers
  /\ calls' =
       [d \in Calls |->
          LET fired == IF d = c
                         THEN [calls[d] EXCEPT !.timers = calls[d].timers \ {k}]
                         ELSE calls[d]
          IN IF /\ fired.pc = "fetching"
                /\ Controller(d, fired.attempt) = Controller(c, k)
               THEN Settled([fired EXCEPT !.answers = fired.answers + 1,
                                          !.abortedBy = fired.abortedBy \cup {<<c, k>>}],
                            CatchOf([class |-> "AbortError", status |-> 0],
                                    fired.attempt, maxRetries),
                            NoBody)
               ELSE fired]
  /\ UNCHANGED <<token, now, stored>>
  /\ ClientFrame

\* the backoff sleep of call c ends: _fetchWithRetry is entered again with
\* the same url and options
ClientWake(c) ==
  /\ calls[c].pc = "sleeping"
  /\ calls' = [calls EXCEPT ![c] =
       Invoked(calls[c], HeadersOfAttempt(calls[c].headers, apiKey, token, now))]
  /\ UNCHANGED <<token, now, stored>>
  /\ ClientFrame

\* res.expires_at || (Math.floor(Date.now() / 1000) + (res.expires_in || 0))
\* with only the life time
ExpiresAt_RelativeOnly(res, ms) ==
  (ms \div 1000) + (IF res.expires_in.present THEN res.expires_in.val ELSE 0)

\* res.expires_at || (Math.floor(Date.now() / 1000) + (res.expires_in || 0))
ExpiresAt(res, ms) ==
  IF res.expires_at.present /\ res.expires_at.val # 0 THEN res.expires_at.val
  ELSE (ms \div 1000)
         + (IF res.expires_in.present /\ res.expires_in.val # 0
              THEN res.expires_in.val ELSE 0)

\* the assignment to this.token keeping a token that is already cached
Assigned_KeepsCached(old, new) == IF old.set THEN old ELSE new

\* this.token = { access_token: res.access_token, expires_at }
Assigned(old, new) == new

\* loginWithPassword goes on after its await: it throws without an
\* access_token, and else stores the token and returns it
LoginFinish(c) ==
  /\ calls[c].pc = "settled"
  /\ IF ~Truthy(calls[c].res.access_token)
       THEN /\ calls' = [calls EXCEPT ![c] =
                 Finished(calls[c], [kind |-> "error", class |-> "Login failed",
                                     status |-> 0, attempt |-> 0])]
            /\ UNCHANGED <<token, stored>>
       ELSE LET new == Token(calls[c].res.access_token.value,
                             ExpiresAt(calls[c].res, now))
            IN /\ token' = Assigned(token, new)
               /\ stored' = [call |-> c, token |-> new]
               /\ calls' = [calls EXCEPT ![c] =
                    Finished(calls[c], [kind |-> "ok", class |-> "token", status |-> 0,
                                        attempt |-> 0])]
  /\ UNCHANGED now
  /\ ClientFrame

\* the clock of the client advances by 10 s
ClientTick ==
  /\ now + 10000 <= MaxClientTicks * 10000
  /\ now' = now + 10000
  /\ UNCHANGED <<token, calls, stored>>
  /\ ClientFrame

(***************************************************************************)
(* The specifications.                                                     *)
(***************************************************************************)
\* the values of backoffFactor clients are constructed with: 0.5 (the
\* default) and 1
BackoffFactors == {500, 1000}

\* the state of a call that has not started
DispatcherIdle ==
  /\ pc = "idle"
  /\ attempt = 0
  /\ exchanges = 0
  /\ timers = {}
  /\ trace = <<>>
  /\ waits = <<>>
  /\ outcome = NoOutcome
  /\ delivered = 0

\* a client constructed without credentials, whose _authHeader was not called
AuthUnused ==
  /\ apiKey = Null
  /\ token = NoToken
  /\ now = 0
  /\ authHeader = NoAuthorization
  /\ authHeaderAt = -1

\* no webhook received
WebhookUnused ==
  /\ payload = <<>>
  /\ secret = <<>>
  /\ received = <<>>
  /\ signature = Null
  /\ tamper = Untouched
  /\ verified = FALSE
  /\ threw = FALSE
  /\ verifiedBare = FALSE

\* no call of a public method on a client without OAuth credentials
ClientUnused ==
  /\ clientId = Null
  /\ clientSecret = Null
  /\ calls = [c \in Calls |-> NoCall]
  /\ stored = NoStore

\* the constructor: this.maxRetries, this.backoffFactor, this.token = null
Init ==
  /\ maxRetries \in 0..MaxRetriesBound
  /\ backoffFactor \in BackoffFactors
  /\ DispatcherIdle
  /\ AuthUnused
  /\ WebhookUnused
  /\ ClientUnused

Next ==
  \/ Call
  \/ \E r \in HttpResponses : FetchResolve(r)
  \/ FetchReject
  \/ Timeout
  \/ Wake
  \/ \E k \in timers : TimerFire(k)

\* one logical call of _fetchWithRetry
Spec == Init /\ [][Next]_vars

\* the API keys: none, the empty string, and "k"
ApiKeys == {Null, Str(<<>>), Str(<<107>>)}

\* the expiry instants of cached tokens, in seconds
ExpiresAts == {0, 10, 11, 12, 13}

\* the cached tokens: none, or the access token "t" with one of the expiries
Tokens == {NoToken} \cup { Token(<<116>>, e) : e \in ExpiresAts }

InitAuth ==
  /\ maxRetries = 0
  /\ backoffFactor = 500
  /\ DispatcherIdle
  /\ apiKey \in ApiKeys
  /\ token \in Tokens
  /\ now = 0
  /\ authHeader = NoAuthorization
  /\ authHeaderAt = -1
  /\ WebhookUnused
  /\ ClientUnused

NextAuth ==
  \/ AuthHeader
  \/ Tick

\* _authHeader called at any time on a client with any credentials
SpecAuth == InitAuth /\ [][NextAuth]_vars

\* the bytes webhook payloads are made of: '{', 'A' and 0
PayloadBytes == {123, 65, 0}

RECURSIVE SeqsUpTo(_, _)
\* the sequences over S of length at most n
SeqsUpTo(S, n) ==
  IF n = 0 THEN {<<>>}
  ELSE LET shorter == SeqsUpTo(S, n - 1)
       IN shorter \cup { Append(s, x) : s \in shorter, x \in S }

\* the webhook secrets: "", "s" and "k2"
Secrets == {<<>>, <<115>>, <<107, 50>>}

InitWebhook ==
  /\ maxRetries = 0
  /\ backoffFactor = 500
  /\ DispatcherIdle
  /\ AuthUnused
  /\ payload \in SeqsUpTo(PayloadBytes, MaxPayloadLen)
  /\ secret \in Secrets
  /\ received = <<>>
  /\ signature = Null
  /\ tamper = Untouched
  /\ verified = FALSE
  /\ threw = FALSE
  /\ verifiedBare = FALSE
  /\ ClientUnused

NextWebhook ==
  \/ VerifySigned
  \/ \E i \in 1..MaxPayloadLen, b \in 0..7 : VerifyFlippedPayload(i, b)
  \/ \E i \in 1..(2 * DigestLen), b \in 0..7 : VerifyFlippedSignature(i, b)
  \/ \E h \in AbsentHeaders \cup NonHexHeaders(HexEncode(Hmac(secret, payload)))
               \cup WrongLengthHeaders(HexEncode(Hmac(secret, payload))) :
       VerifyMalformed(h)
  \/ \E hex \in HexStrings(HexEncode(Hmac(secret, payload))) : VerifyPrefixed(hex)

\* a signed webhook verified as sent, or with one bit changed
SpecWebhook == InitWebhook /\ [][NextWebhook]_vars

\* the OAuth credentials clients are constructed with: both, the id alone,
\* and none
ClientCredentials ==
  { <<Str(<<105>>), Str(<<120>>)>>, <<Str(<<105>>), Null>>, <<Null, Null>> }

\* the constructor of a client that authenticates with OAuth tokens:
\* no apiKey, this.token = null, no call made
InitClient ==
  /\ maxRetries \in 0..MaxClientRetries
  /\ backoffFactor = 500
  /\ DispatcherIdle
  /\ apiKey = Null
  /\ token = NoToken
  /\ now = 0
  /\ authHeader = NoAuthorization
  /\ authHeaderAt = -1
  /\ WebhookUnused
  /\ \E cr \in ClientCredentials : clientId = cr[1] /\ clientSecret = cr[2]
  /\ calls = [c \in Calls |-> NoCall]
  /\ stored = NoStore

NextClient ==
  \/ \E c \in Calls, op \in RequestOps : CallRequest(c, op)
  \/ \E c \in Calls : CallLogin(c)
  \/ \E c \in Calls, r \in ClientResponses, body \in LoginBodies \cup {NoBody} :
       ClientResolve(c, r, body)
  \/ \E c \in Calls, k \in 1..(MaxClientRetries + 1) : ClientTimerFire(c, k)
  \/ \E c \in Calls : ClientWake(c)
  \/ \E c \in Calls : LoginFinish(c)
  \/ ClientTick

\* the calls of public methods on one client, interleaved
SpecClient == InitClient /\ [][NextClient]_vars

(***************************************************************************)
(* Properties of the dispatcher, checked under Spec.                       *)
(***************************************************************************)
\* attempt n was answered by a 5xx response
Is5xx(x) == x.kind = "response" /\ x.status >= 500 /\ x.status <= 599

\* attempt n ended because fetch rejected (network failure or abort)
IsRejection(x) == x.kind = "rejection"

\* the classification section 4.2 and section 7 of the specification give
\* to the answer x of a failed attempt
Classified(x) ==
  IF x.kind = "rejection" THEN [class |-> x.name, status |-> 0]
  ELSE IF x.status \in {401, 403} THEN [class |-> "AuthError", status |-> x.status]
  ELSE IF x.status = 404 THEN [class |-> "NotFound", status |-> 404]
  ELSE IF x.status = 429 THEN [class |-> "RateLimit", status |-> 429]
  ELSE [class |-> "HTTP", status |-> x.status]

\* C1: when the first attempt is answered 401 or 403, the call is over after
\* that single exchange, failed with an AuthError: it never retries, whatever
\* retry budget remains.
C1_AuthFailsWithoutRetry ==
  (trace # <<>> /\ trace[1].kind = "response" /\ trace[1].status \in {401, 403})
    => /\ pc = "done"
       /\ exchanges = 1
       /\ outcome.kind = "error"
       /\ outcome.class = "AuthError"

\* C2: when every attempt is answered 500, the call ends after exactly
\* maxRetries + 1 transport exchanges, failed with an HTTP error carrying
\* status 500.
C2_AlwaysServerError ==
  (pc = "done" /\ \A i \in 1..Len(trace) :
                    trace[i].kind = "response" /\ trace[i].status = 500)
    => /\ exchanges = maxRetries + 1
       /\ Len(trace) = maxRetries + 1
       /\ outcome.kind = "error"
       /\ outcome.class = "HTTP"
       /\ outcome.status = 500

\* a call that was answered 500 three times and is over
C2_Witness ==
  /\ pc = "done"
  /\ maxRetries = 2
  /\ Len(trace) = 3
  /\ \A i \in 1..Len(trace) : trace[i].kind = "response" /\ trace[i].status = 500

\* the answer x is a 429 carrying Retry-After: 2
Is429RetryAfter2(x) ==
  x.kind = "response" /\ x.status = 429 /\ x.retryAfter = Header(<<50>>)

\* C3: after a 429 with Retry-After: 2 while retries remain, the wait before
\* the next attempt is at least 2000 ms, and the call succeeds if the retried
\* attempt is answered 200.
C3_RetryAfterTwoSeconds ==
  \A i \in 1..Len(trace) :
    (Is429RetryAfter2(trace[i]) /\ i <= maxRetries)
      => /\ Len(waits) >= i
         /\ waits[i] >= 2000
         /\ (Len(trace) > i /\ trace[i + 1].status = 200)
              => (pc = "done" /\ outcome.kind = "ok")

\* C4: one logical call never makes more than maxRetries + 1 transport
\* exchanges, and the attempt counter never exceeds maxRetries + 1.
C4_AttemptsBounded ==
  /\ attempt <= maxRetries + 1
  /\ exchanges <= maxRetries + 1
  /\ Len(trace) <= maxRetries + 1

\* a call that used its whole budget on a mix of answers: a rejection, a
\* response that is not 2xx, and a last exchange
C4_Witness ==
  /\ maxRetries >= 2
  /\ exchanges = maxRetries + 1
  /\ Len(trace) = maxRetries + 1
  /\ \E i \in 1..Len(trace) : IsRejection(trace[i])
  /\ \E i \in 1..Len(trace) : trace[i].kind = "response" /\ trace[i].status = 429

\* C5: the wait before the n-th retry caused by a 5xx response or a
\* transport failure is backoffFactor * 2^(n-1) seconds; with backoffFactor
\* 0.5 the delays are 500, 1000, 2000 ms.
C5_ExponentialBackoff ==
  \A n \in 1..Len(waits) :
    (Is5xx(trace[n]) \/ IsRejection(trace[n]))
      => /\ waits[n] = backoffFactor * Pow2(n - 1)
         /\ (n > 1 /\ (Is5xx(trace[n - 1]) \/ IsRejection(trace[n - 1])))
              => waits[n] = 2 * waits[n - 1]
         /\ backoffFactor = 500 => waits[n] = <<500, 1000, 2000, 4000, 8000>>[n]

\* three retries in a row caused by 5xx answers and transport failures, with
\* backoffFactor 0.5
C5_Witness ==
  /\ backoffFactor = 500
  /\ Len(waits) = 3
  /\ Is5xx(trace[1]) /\ IsRejection(trace[2]) /\ Is5xx(trace[3])
  /\ waits = <<500, 1000, 2000>>

\* C7: an attempt answered 404, or another status that is not 2xx, 401, 403,
\* 429 or 5xx (400 here), ends the call at once with NotFound (404) or an
\* HTTP error (other): no backoff wait and no further exchange follow.
C7_ClientErrorsFailAtOnce ==
  \A i \in 1..Len(trace) :
    (trace[i].kind = "response" /\ trace[i].status \in {400, 404})
      => /\ i = Len(trace)
         /\ Len(waits) < i
         /\ exchanges = i
         /\ pc = "done"
         /\ outcome.kind = "error"
         /\ outcome.class = (IF trace[i].status = 404 THEN "NotFound" ELSE "HTTP")

\* C8: a call delivers exactly one outcome: the decoded body of the first 2xx
\* attempt, or the error classified from the last attempt made; errors of
\* earlier attempts are not surfaced and no attempt follows the delivery.
C8_SingleOutcome ==
  /\ delivered <= 1
  /\ (pc = "done") <=> (delivered = 1)
  /\ (pc # "done") => outcome = NoOutcome
  /\ (pc = "done") =>
       LET n == Len(trace)
           last == trace[n]
       IN /\ n >= 1
          /\ exchanges = n
          /\ outcome.attempt = n
          /\ \A i \in 1..(n - 1) :
               ~(trace[i].kind = "response" /\ Ok(trace[i].status))
          /\ IF last.kind = "response" /\ last.status >= 200 /\ last.status <= 299
               THEN /\ outcome.kind = "ok"
                    /\ outcome.class = (IF last.json THEN "json" ELSE "raw")
               ELSE /\ outcome.kind = "error"
                    /\ outcome.class = Classified(last).class
                    /\ outcome.status = Classified(last).status

\* a call that ended with the error of its third attempt after two retried
\* errors of other kinds
C8_Witness ==
  /\ pc = "done"
  /\ Len(trace) = 3
  /\ trace[1].status = 500
  /\ IsRejection(trace[2])
  /\ trace[3].status = 404
  /\ outcome.class = "NotFound"

\* a call that ended with the body of a 2xx answer that came after a retry
C8_WitnessOk ==
  /\ pc = "done"
  /\ Len(trace) = 2
  /\ outcome.kind = "ok"

\* C9: the timeout timer of an attempt is cleared on every exit path of the
\* attempt: a pending timer always belongs to the attempt in flight.
C9_NoTimerOfFinishedAttempt ==
  timers \subseteq (IF pc = "fetching" THEN {attempt} ELSE {})

(***************************************************************************)
(* Properties of _authHeader, checked under SpecAuth.                      *)
(***************************************************************************)
\* C6: with an apiKey configured the header is Bearer <apiKey>, even when a
\* valid cached token exists; otherwise the cached token is used iff
\* now < expires_at - 10 s; otherwise there is no Authorization header.
C6_AuthHeaderSelection ==
  authHeaderAt >= 0 =>
    LET valid == token.set /\ authHeaderAt < token.expires_at * 1000 - 10000
    IN /\ Truthy(apiKey) => authHeader = Bearer(apiKey.value)
       /\ (~Truthy(apiKey) /\ valid) => authHeader = Bearer(token.access_token)
       /\ (~Truthy(apiKey) /\ ~valid) => authHeader = NoAuthorization

\* _authHeader called without an apiKey exactly 10 s before the cached token
\* expires: no header
C6_Witness ==
  /\ ~Truthy(apiKey)
  /\ token.set
  /\ authHeaderAt > 0
  /\ authHeaderAt = (token.expires_at - 10) * 1000
  /\ authHeader = NoAuthorization

(***************************************************************************)
(* Properties of verifyWebhook, checked under SpecWebhook.                 *)
(***************************************************************************)
\* C10: the signature hmac_hex(payload, secret) verifies, and changing any
\* single bit of the payload or of the signature string makes the result
\* false.
C10_AnyBitFlipRejected ==
  /\ tamper.what = "nothing" => verified
  /\ tamper.what \in {"payload", "signature"} => ~verified

\* C10 as amended: the signature hmac_hex(payload, secret) verifies; changing
\* any single bit of the payload makes the result false; changing a single
\* bit of the signature string makes the result false unless the bit is the
\* case bit (0x20) of a hexadecimal letter a-f, which then reads A-F and
\* decodes to the same byte.
C10_BitFlipRejectedUpToCase ==
  /\ tamper.what = "nothing" => verified
  /\ tamper.what = "payload" => ~verified
  /\ tamper.what = "signature" =>
       (verified <=> (tamper.bit = 5 /\ signature.value[tamper.at] \in 65..70))

\* a signature of a payload that is not empty, verified with one of its
\* letters in upper case
C10_Witness ==
  /\ tamper.what = "signature"
  /\ tamper.bit = 5
  /\ payload # <<>>
  /\ signature.value[tamper.at] \in 65..70
  /\ verified

\* a payload with one bit changed, rejected
C10_WitnessPayload ==
  /\ tamper.what = "payload"
  /\ ~verified

\* C11: verifyWebhook returns false and never throws for an absent or empty
\* signature header, a signature that is not hexadecimal, and a signature
\* that decodes to another number of bytes than the digest; and a header
\* with the sha256= prefix gives the result of the same hexadecimal string
\* without it.
C11_MalformedRejected ==
  /\ tamper.what = "malformed" => (~verified /\ ~threw)
  /\ tamper.what = "prefixed" => (~threw /\ verified = verifiedBare)

(***************************************************************************)
(* More properties of the dispatcher, checked under Spec.                  *)
(***************************************************************************)
\* the larger of two numbers
Max(a, b) == IF a >= b THEN a ELSE b

\* C13: after a 429 with a Retry-After header while the attempt count has not
\* exceeded maxRetries, the wait is max(Retry-After seconds, backoffFactor *
\* 2^(attempt-1) seconds) in milliseconds, and the exponential value alone
\* when Retry-After is no number.
C13_RetryAfterOrBackoff ==
  \A i \in 1..Len(trace) :
    (/\ trace[i].kind = "response"
     /\ trace[i].status = 429
     /\ Truthy(trace[i].retryAfter)
     /\ i <= maxRetries)
      => /\ Len(waits) >= i
         /\ LET n == ParseInt(trace[i].retryAfter.value)
                exponential == backoffFactor * Pow2(i - 1)
            IN waits[i] = IF n.nan THEN exponential
                          ELSE Max(n.val * 1000, exponential)

\* C14: a 429 without a Retry-After header ends the call at once with a
\* RateLimit error, with no further exchange whatever budget remains; a 429
\* with a Retry-After header when the attempt count exceeds maxRetries fails
\* with a RateLimit error too.
C14_RateLimitTerminal ==
  \A i \in 1..Len(trace) :
    (trace[i].kind = "response" /\ trace[i].status = 429)
      => /\ ~trace[i].retryAfter.present
              => /\ i = Len(trace)
                 /\ Len(waits) < i
                 /\ exchanges = i
                 /\ pc = "done"
                 /\ outcome.kind = "error"
                 /\ outcome.class = "RateLimit"
         /\ (trace[i].retryAfter.present /\ i > maxRetries)
              => /\ pc = "done"
                 /\ outcome.kind = "error"
                 /\ outcome.class = "RateLimit"

\* C15: when the exchange of an attempt fails or is aborted by its timeout,
\* the dispatcher waits the exponential backoff and retries while the attempt
\* count has not exceeded maxRetries; after that (maxRetries + 1 exchanges)
\* it fails with that transport error itself, not reclassified or wrapped.
C15_TransportFailureRetried ==
  \A i \in 1..Len(trace) :
    IsRejection(trace[i])
      => IF i <= maxRetries
           THEN /\ Len(waits) >= i
                /\ waits[i] = backoffFactor * Pow2(i - 1)
                /\ pc = "done" => Len(trace) > i
           ELSE /\ i = maxRetries + 1
                /\ Len(trace) = i
                /\ exchanges = i
                /\ pc = "done"
                /\ outcome = [kind |-> "error", class |-> trace[i].name,
                              status |-> 0, attempt |-> i]

\* a call whose three exchanges failed, the second by its timeout, and that
\* ended with the network error of the third
C15_Witness ==
  /\ maxRetries = 2
  /\ pc = "done"
  /\ Len(trace) = 3
  /\ trace[1].name = "NetworkError"
  /\ trace[2].name = "AbortError"
  /\ trace[3].name = "NetworkError"
  /\ outcome.class = "NetworkError"
  /\ waits = <<backoffFactor, 2 * backoffFactor>>

(***************************************************************************)
(* Properties of the calls of one client, checked under SpecClient.        *)
(***************************************************************************)
\* call c is a loginWithPassword that stores its token in this step
LoginSucceeds(c) ==
  /\ calls[c].op = "loginWithPassword"
  /\ calls[c].pc = "settled"
  /\ calls'[c].pc = "done"
  /\ calls'[c].outcome.kind = "ok"

\* call c is a loginWithPassword that fails in this step
LoginFails(c) ==
  /\ calls'[c].op = "loginWithPassword"
  /\ calls[c].pc # "done"
  /\ calls'[c].pc = "done"
  /\ calls'[c].outcome.kind = "error"

\* C16: the cached token is changed only by loginWithPassword: no step of
\* createPayment, transactionStatus, transactionList, request or their
\* retries changes it, whatever the transport answers and whether or not the
\* token has expired.
C16_TokenChangedOnlyByLogin ==
  [][token' # token => \E c \in Calls : LoginSucceeds(c)]_vars

\* a request failed with an AuthError while a token is cached that has
\* passed its expiry margin, and the token is still cached
C16_Witness ==
  /\ token.set
  /\ now >= (token.expires_at - 10) * 1000
  /\ \E c \in Calls : /\ calls[c].op = "request"
                      /\ calls[c].outcome.class = "AuthError"

\* the steps of a failing loginWithPassword leave the token, and without
\* clientId or clientSecret the call ends before any fetch
LoginFailureLeavesToken ==
  /\ \A c \in Calls : LoginFails(c) => token' = token
  /\ \A c \in Calls :
       (/\ calls[c].op = "none"
        /\ calls'[c].op = "loginWithPassword"
        /\ ~(Truthy(clientId) /\ Truthy(clientSecret)))
       => /\ calls'[c].outcome.class = "ConfigurationError"
          /\ calls'[c].exchanges = 0
          /\ calls'[c].timers = {}
          /\ token' = token

\* C17: loginWithPassword replaces the cached token exactly when it
\* succeeds; the new token is the response's access token, expiring at the
\* response's expires_at if the response has one, else at now plus its
\* expires_in (0 if absent); a failing login leaves the token, and without
\* credentials no exchange is made.
C17_ExpiryGivenOrRelative ==
  [][/\ \A c \in Calls : LoginSucceeds(c) =>
          token' = Token(calls[c].res.access_token.value,
                         IF calls[c].res.expires_at.present
                           THEN calls[c].res.expires_at.val
                           ELSE (now \div 1000)
                                  + (IF calls[c].res.expires_in.present
                                       THEN calls[c].res.expires_in.val ELSE 0))
     /\ LoginFailureLeavesToken]_vars

\* C17, amended: as C17, where an expires_at of 0 counts as not given: the
\* expiry is the response's expires_at if it is present and not 0, else now
\* plus its expires_in (0 if absent).
C17_ExpiryNonZeroOrRelative ==
  [][/\ \A c \in Calls : LoginSucceeds(c) =>
          token' = Token(calls[c].res.access_token.value,
                         IF /\ calls[c].res.expires_at.present
                            /\ calls[c].res.expires_at.val # 0
                           THEN calls[c].res.expires_at.val
                           ELSE (now \div 1000)
                                  + (IF calls[c].res.expires_in.present
                                       THEN calls[c].res.expires_in.val ELSE 0))
     /\ LoginFailureLeavesToken]_vars

\* a login answered at second 10 with expires_at 0 stored the token "z"
\* expiring at second 10
C17_Witness ==
  /\ stored.call # 0
  /\ token = Token(<<122>>, 10)

\* C18: calls in flight together each have their own attempt counter and
\* their own timers: an exchange is aborted by the timer of its own attempt
\* alone, a call makes at most maxRetries + 1 exchanges, and one that fails
\* in the dispatcher has had all of its maxRetries + 1 attempts.
C18_CallsIndependent ==
  \A c \in Calls :
    /\ calls[c].exchanges <= maxRetries + 1
    /\ calls[c].exchanges = calls[c].attempt
    /\ \A t \in calls[c].abortedBy : t = <<c, calls[c].attempt>>
    /\ \A t \in calls[c].timers : t <= maxRetries + 1
    /\ calls[c].outcome.class \in {"AuthError", "AbortError"}
         => calls[c].outcome.attempt = maxRetries + 1

\* one call timed out and waits for its retry while another call, made
\* before the timeout, is still in its first exchange
C18_Witness ==
  \E c, d \in Calls :
    /\ c # d
    /\ calls[c].pc = "sleeping"
    /\ calls[c].abortedBy = {<<c, 1>>}
    /\ calls[d].pc = "fetching"
    /\ calls[d].attempt = 1
    /\ calls[d].abortedBy = {}

\* C19: after concurrent logins the cached token is the whole token of the
\* login that stored last: its access token with its expiry.
C19_LastWriteWins ==
  stored.call # 0 => token = stored.token

\* two logins ran together and both succeeded; the one called first stored
\* last, and its token is the cached one
C19_Witness ==
  /\ NumCalls >= 2
  /\ calls[1].op = "loginWithPassword" /\ calls[1].outcome.kind = "ok"
  /\ calls[2].op = "loginWithPassword" /\ calls[2].outcome.kind = "ok"
  /\ stored.call = 1
  /\ token = stored.token

\* C20: every attempt of a request sends the headers chosen when the method
\* was called, whatever became of the cached token since.
C20_SameHeadersEveryAttempt ==
  \A c \in Calls :
    (calls[c].op = "request" /\ calls[c].pc # "done")
      => calls[c].sent = {calls[c].headers}

\* a request is in its second attempt, and the header _authHeader would
\* choose now is no longer the one the request carries
C20_Witness ==
  \E c \in Calls :
    /\ calls[c].op = "request"
    /\ calls[c].pc = "fetching"
    /\ calls[c].attempt = 2
    /\ calls[c].sent = {calls[c].headers}
    /\ calls[c].headers # _authHeader(apiKey, token, now)

====
